---- MODULE Spec2Model ----
(***************************************************************************)
(* Model of the two programs of the repository:                            *)
(*   - the edge request gate (the express server: header stamping and      *)
(*     trailing-slash redirect, getReplaceResponse, compression, the two   *)
(*     express.static mounts, morgan, the catch-all request handler);      *)
(*   - the scaffold initializer (remix.init/index.js: main and             *)
(*     askSetupQuestions).                                                 *)
(* A string is a sequence of tokens: the separator "/" or a name standing  *)
(* for a non-empty run of characters without separator.  The string        *)
(* operations of the server act on the separator only, so slicing off the  *)
(* last token of a path that ends in "/" is slicing off its last character.*)
(***************************************************************************)
EXTENDS Integers, Sequences, FiniteSets, TLC

\* ---------------------------------------------------------------- bounds
MaxPathLen == 4

\* ------------------------------------------------------------ the server
UNDEFINED == "undefined"

Tokens == {"/", "build", "posts"}

Methods == {"GET", "HEAD", "OPTIONS", "POST"}

Regions == {UNDEFINED, "", "iad", "lhr"}

Queries == {<<>>, <<"?page=2">>, <<"?next=", "/", "/">>}

SeqsUpTo(S, n) == UNION {[1..k -> S] : k \in 0..n}

\* req.path always starts with the separator
Paths == {p \in SeqsUpTo(Tokens, MaxPathLen) : Len(p) >= 1 /\ p[1] = "/"}

\* max-age=${60 * 60 * 24 * 365 * 100}: the seconds of a year and the number
\* of years, the product not fitting a 32-bit integer
StsMaxAge == <<60 * 60 * 24 * 365, 100>>

VARIABLES
  env,        \* process.env: FLY_REGION, PRIMARY_REGION
  req,        \* the request being handled: method, path, query string, url
  files,      \* does the path name a file under public/build, under public
  gpc,        \* the layer of the chain the request is at
  res,        \* the response: status, headers, Location
  sent,       \* the layers that ended the request, in order
  \* ------ the initializer
  isTypeScript, packageManager,
  ops,        \* fileOperationPromises: how many are pending, fulfilled, rejected
  batch,      \* the Promise.all over fileOperationPromises
  ipc,        \* position of main / askSetupQuestions
  answers,    \* answers of the inquirer prompts
  shown,      \* the questions displayed, in order
  pm,         \* the command set askSetupQuestions selected
  cmds,       \* the commands handed to execSync, in order, with outcome
  flowErr,    \* the error askSetupQuestions rejected with
  mainRes,    \* the promise returned by main
  printed     \* the "Project is ready" message was logged

gateVars == <<env, req, files, gpc, res, sent>>
initVars == <<isTypeScript, packageManager, ops, batch, ipc, answers, shown,
              pm, cmds, flowErr, mainRes, printed>>
vars == <<env, req, files, gpc, res, sent, isTypeScript, packageManager, ops,
          batch, ipc, answers, shown, pm, cmds, flowErr, mainRes, printed>>

\* ------------------------------------------------------ string operations
\* String.prototype.endsWith('/')
EndsWithSlash(s) == Len(s) > 0 /\ s[Len(s)] = "/"

\* String.prototype.slice(0, -1)
SliceOffLast(s) == SubSeq(s, 1, Len(s) - 1)

\* String.prototype.slice(n)
SliceFrom(s, n) == SubSeq(s, n + 1, Len(s))

\* String.prototype.replace(/\/+/g, '/')
RECURSIVE CollapseSlashes(_)
CollapseSlashes(s) ==
  IF Len(s) <= 1 THEN s
  ELSE IF s[1] = "/" /\ s[2] = "/" THEN CollapseSlashes(Tail(s))
  ELSE <<s[1]>> \o CollapseSlashes(Tail(s))

\* FLY_REGION ?? 'unknown'
RegionOrUnknown(r) == IF r = UNDEFINED THEN "unknown" ELSE r

\* truthiness of an environment variable
Truthy(r) == r # UNDEFINED /\ r # ""

NoRequest == [method |-> "GET", path |-> <<"/">>, search |-> <<>>,
              url |-> <<"/">>]
NoFiles == [build |-> FALSE, public |-> FALSE]
\* a header that is not set
NoHeader == <<>>

NoResponse == [status |-> 0, location |-> NoHeader, xFlyRegion |-> NoHeader,
               sts |-> NoHeader, flyReplay |-> NoHeader]

\* a request arrives; req.url is the path followed by the query string
Receive ==
  /\ gpc = "idle"
  /\ \E m \in Methods, p \in Paths, q \in Queries :
       req' = [method |-> m, path |-> p, search |-> q, url |-> p \o q]
  /\ files' \in [build : BOOLEAN, public : BOOLEAN]
  /\ gpc' = "slash"
  /\ res' = NoResponse
  /\ sent' = <<>>
  /\ UNCHANGED <<env, initVars>>

\* the condition of the trailing-slash redirect
NeedsSlashRedirect(path) == EndsWithSlash(path) /\ Len(path) > 1

\* safepath + query
RedirectTarget(r) ==
  LET query == SliceFrom(r.url, Len(r.path))
      safepath == CollapseSlashes(SliceOffLast(r.path))
  IN  safepath \o query

\* header stamping and trailing-slash redirect
SlashRedirect ==
  /\ gpc = "slash"
  /\ LET stamped == [res EXCEPT !.xFlyRegion = <<RegionOrUnknown(env.FLY_REGION)>>,
                                !.sts = StsMaxAge]
     IN  IF NeedsSlashRedirect(req.path)
         THEN /\ res' = [stamped EXCEPT !.status = 301,
                                        !.location = RedirectTarget(req)]
              /\ sent' = Append(sent, "redirect")
              /\ gpc' = "done"
         ELSE /\ res' = stamped
              /\ sent' = sent
              /\ gpc' = "replay"
  /\ UNCHANGED <<env, req, files, initVars>>

isMethodReplayable_negated(method) == method \in {"GET", "OPTIONS", "HEAD"}

isMethodReplayable(method) == method \notin {"GET", "OPTIONS", "HEAD"}

isReadOnlyRegion_unguarded(e) == e.FLY_REGION # e.PRIMARY_REGION

isReadOnlyRegion(e) ==
  Truthy(e.FLY_REGION) /\ Truthy(e.PRIMARY_REGION)
    /\ e.FLY_REGION # e.PRIMARY_REGION

shouldReply(r, e) == isMethodReplayable(r.method) /\ isReadOnlyRegion(e)

getReplaceResponse_noReturn ==
  /\ gpc = "replay"
  /\ IF ~shouldReply(req, env)
     THEN UNCHANGED <<res, sent>>
     ELSE /\ res' = [res EXCEPT !.flyReplay = <<"region=", env.PRIMARY_REGION>>,
                                !.status = 409]
          /\ sent' = Append(sent, "replay")
  /\ gpc' = "compression"
  /\ UNCHANGED <<env, req, files, initVars>>

getReplaceResponse ==
  /\ gpc = "replay"
  /\ IF ~shouldReply(req, env)
     THEN /\ gpc' = "compression"
          /\ UNCHANGED <<res, sent>>
     ELSE /\ res' = [res EXCEPT !.flyReplay = <<"region=", env.PRIMARY_REGION>>,
                                !.status = 409]
          /\ sent' = Append(sent, "replay")
          /\ gpc' = "done"
  /\ UNCHANGED <<env, req, files, initVars>>

\* compression() wraps the response and always calls next
Compression ==
  /\ gpc = "compression"
  /\ gpc' = "staticBuild"
  /\ UNCHANGED <<env, req, files, res, sent, initVars>>

\* the mount path '/build' matches the path '/build' and what is below it
UnderBuild(path) ==
  /\ Len(path) >= 2
  /\ path[1] = "/"
  /\ path[2] = "build"
  /\ (Len(path) = 2 \/ path[3] = "/")

\* express.static('public/build') mounted on '/build': answers when the
\* path names a file, falls through otherwise.  The layer is let answer a
\* request of any method, which covers what the library does.
StaticBuild ==
  /\ gpc = "staticBuild"
  /\ IF UnderBuild(req.path) /\ files.build
     THEN /\ res' = [res EXCEPT !.status = 200]
          /\ sent' = Append(sent, "static")
          /\ gpc' = "done"
     ELSE /\ gpc' = "staticPublic"
          /\ UNCHANGED <<res, sent>>
  /\ UNCHANGED <<env, req, files, initVars>>

\* express.static('public')
StaticPublic ==
  /\ gpc = "staticPublic"
  /\ IF files.public
     THEN /\ res' = [res EXCEPT !.status = 200]
          /\ sent' = Append(sent, "static")
          /\ gpc' = "done"
     ELSE /\ gpc' = "morgan"
          /\ UNCHANGED <<res, sent>>
  /\ UNCHANGED <<env, req, files, initVars>>

\* morgan('tiny') logs and always calls next
Morgan ==
  /\ gpc = "morgan"
  /\ gpc' = "app"
  /\ UNCHANGED <<env, req, files, res, sent, initVars>>

\* app.all('*', createRequestHandler(...)): the request is handed to the
\* application renderer
AppHandler ==
  /\ gpc = "app"
  /\ res' = [res EXCEPT !.status = 200]
  /\ sent' = Append(sent, "app")
  /\ gpc' = "done"
  /\ UNCHANGED <<env, req, files, initVars>>

\* the response is finished and the connection is free for the next request
Close ==
  /\ gpc = "done"
  /\ gpc' = "idle"
  /\ req' = NoRequest
  /\ files' = NoFiles
  /\ res' = NoResponse
  /\ sent' = <<>>
  /\ UNCHANGED <<env, initVars>>

\* ------------------------------------------------------- the initializer
PackageManagers == {"npm", "pnpm", "yarn"}

PnpmVersions == {"6.0.0", "6.13.0", "7.0.0"}

\* semver.gte(pnpmVersion, '6.13.0')
useExec(version) == version \in {"6.13.0", "7.0.0"}

\* semver.lt(pnpmVersion, '7.0.0')
includeDoubleDashBeforeArgs(version) == version \in {"6.0.0", "6.13.0"}

\* a function the object literal of a command set does not define
NoFunction == <<>>

\* before askSetupQuestions has selected the command set
NoCommandSet == [exec |-> UNDEFINED, lockfile |-> UNDEFINED, run |-> NoFunction,
                 dashArgs |-> FALSE, install |-> NoFunction]

\* getPackageManagerCommand(packageManager), pnpm reporting the given
\* version.  A function of the command set is modelled by the words it puts
\* before its arguments.
getPackageManagerCommand(name, version) ==
  CASE name = "npm" ->
         [exec |-> "npx", lockfile |-> "package-lock.json",
          run |-> <<"npm", "run">>, dashArgs |-> TRUE,
          install |-> <<"npm", "install">>]
    [] name = "pnpm" ->
         [exec |-> IF useExec(version) THEN "pnpm exec" ELSE "pnpx",
          lockfile |-> "pnpm-lock.yaml",
          run |-> <<"pnpm", "run">>,
          dashArgs |-> includeDoubleDashBeforeArgs(version),
          install |-> NoFunction]
    [] name = "yarn" ->
         [exec |-> "yarn", lockfile |-> "yarn.lock",
          run |-> <<"yarn">>, dashArgs |-> FALSE,
          install |-> NoFunction]

\* pm.run(script), called without args
RunCommand(p, script) == Append(p.run, script)

\* pm.install(name, args), args being '' when not given
InstallCommand(p, name, args) == p.install \o <<args, name>>

\* fileOperationPromises: seven operations, three more without TypeScript.
\* Promise.all tells the promises apart by their state only, so the model
\* keeps the number of promises in each state.
NumOps(ts) == IF ts THEN 7 ELSE 10

NoError == [kind |-> "none", isTtyError |-> FALSE]
TtyError == [kind |-> "tty", isTtyError |-> TRUE]
CancelError == [kind |-> "cancel", isTtyError |-> FALSE]
ExecError == [kind |-> "exec", isTtyError |-> FALSE]
TypeError == [kind |-> "type", isTtyError |-> FALSE]
ReadError == [kind |-> "read", isTtyError |-> FALSE]

\* before main has built fileOperationPromises
NoOps == [pending |-> 0, ok |-> 0, failed |-> 0]

\* the answers object before any question is answered
NoAnswers == <<>>

\* the positions at which main or askSetupQuestions waits on the event loop
AwaitPoints == {"awaitBatch", "q_amplify", "q_cli", "q_validate", "done"}

\* a callback of a file operation runs only when no synchronous code and no
\* continuation of a settled promise is to run first
EventLoopFree ==
  /\ ipc \in AwaitPoints
  /\ ~(ipc = "awaitBatch" /\ batch # "pending")

\* Promise.all: rejected by the first rejection, resolved when all resolved
PromiseAll(old, statuses) ==
  IF old # "pending" THEN old
  ELSE IF statuses.failed > 0 THEN "rejected"
  ELSE IF statuses.pending = 0 THEN "resolved"
  ELSE "pending"

\* main up to the await of the write batch: the reads, then the file
\* operations are started
ReadTemplates ==
  /\ ipc = "read"
  /\ \/ /\ ops' = [pending |-> NumOps(isTypeScript), ok |-> 0, failed |-> 0]
        /\ batch' = "pending"
        /\ ipc' = "awaitBatch"
        /\ UNCHANGED mainRes
     \/ /\ mainRes' = [state |-> "rejected", error |-> ReadError]
        /\ ipc' = "done"
        /\ UNCHANGED <<ops, batch>>
  /\ UNCHANGED <<isTypeScript, packageManager, answers, shown, pm, cmds,
                 flowErr, printed, gateVars>>

\* one file operation completes
CompleteOp ==
  /\ EventLoopFree
  /\ ops.pending > 0
  /\ \E outcome \in {"ok", "failed"} :
       /\ ops' = [ops EXCEPT !.pending = @ - 1, ![outcome] = @ + 1]
       /\ batch' = PromiseAll(batch, ops')
  /\ UNCHANGED <<isTypeScript, packageManager, ipc, answers, shown, pm,
                 cmds, flowErr, mainRes, printed, gateVars>>

\* askSetupQuestions rejects with the error
FlowRejects(error) ==
  /\ flowErr' = error
  /\ ipc' = "flowRejected"

\* inquirer.prompt is called: the first question is displayed, or the
\* prompt cannot be rendered
CallPrompt(question, at) ==
  \/ /\ shown' = Append(shown, question)
     /\ ipc' = at
     /\ UNCHANGED flowErr
  \/ /\ FlowRejects(TtyError)
     /\ UNCHANGED shown

MainResume_noCatch ==
  /\ ipc = "awaitBatch"
  /\ batch \in {"resolved", "rejected"}
  /\ IF batch = "rejected"
     THEN /\ mainRes' = [state |-> "rejected",
                         error |-> [kind |-> "write", isTtyError |-> FALSE]]
          /\ ipc' = "done"
          /\ UNCHANGED <<shown, flowErr>>
     ELSE /\ CallPrompt("amplify", "q_amplify")
          /\ UNCHANGED mainRes
  /\ UNCHANGED <<isTypeScript, packageManager, ops, batch, answers, pm, cmds,
                 printed, gateVars>>

\* the await of Promise.all returns or throws into the empty catch; then
\* askSetupQuestions is called
MainResume ==
  /\ ipc = "awaitBatch"
  /\ batch \in {"resolved", "rejected"}
  /\ CallPrompt("amplify", "q_amplify")
  /\ UNCHANGED <<isTypeScript, packageManager, ops, batch, answers, pm, cmds,
                 mainRes, printed, gateVars>>

\* the prompt displays its questions one after the other; neither has a
\* `when` condition
AnswerAmplify ==
  /\ ipc = "q_amplify"
  /\ \E a \in BOOLEAN : answers' = answers @@ ("amplify" :> a)
  /\ shown' = Append(shown, "cli")
  /\ ipc' = "q_cli"
  /\ UNCHANGED <<isTypeScript, packageManager, ops, batch, pm, cmds, flowErr,
                 mainRes, printed, gateVars>>

AnswerCli ==
  /\ ipc = "q_cli"
  /\ \E c \in BOOLEAN : answers' = answers @@ ("cli" :> c)
  /\ ipc' = "getPm"
  /\ UNCHANGED <<isTypeScript, packageManager, ops, batch, shown, pm, cmds,
                 flowErr, mainRes, printed, gateVars>>

\* the user closes a displayed prompt instead of answering: the prompt
\* rejects with an error that carries no isTtyError
PromptRejects ==
  /\ ipc \in {"q_amplify", "q_cli", "q_validate"}
  /\ FlowRejects(CancelError)
  /\ UNCHANGED <<isTypeScript, packageManager, ops, batch, answers, shown,
                 pm, cmds, mainRes, printed, gateVars>>

ExecSync_ignoreExit(command, next) ==
  \E ok \in BOOLEAN :
    /\ cmds' = Append(cmds, [command |-> command, ok |-> ok])
    /\ ipc' = next
    /\ UNCHANGED flowErr

\* execSync(command): the command is run to its end; a non-zero exit throws
ExecSync(command, next) ==
  \E ok \in BOOLEAN :
    /\ cmds' = Append(cmds, [command |-> command, ok |-> ok])
    /\ IF ok THEN ipc' = next /\ UNCHANGED flowErr
             ELSE FlowRejects(ExecError)

\* where the flow goes once the command set is selected
AfterPm ==
  IF answers.amplify
  THEN IF answers.cli THEN "installCli" ELSE "installLocal"
  ELSE "prompt2"

\* const pm = getPackageManagerCommand(packageManager); the pnpm variant
\* runs `pnpm --version` (getPackageManagerVersion)
SelectPm ==
  /\ ipc = "getPm"
  /\ IF packageManager = "pnpm"
     THEN \E v \in PnpmVersions :
            /\ ExecSync(<<"pnpm", "--version">>, AfterPm)
            /\ pm' = IF ipc' = AfterPm
                     THEN getPackageManagerCommand("pnpm", v) ELSE pm
     ELSE /\ pm' = getPackageManagerCommand(packageManager, UNDEFINED)
          /\ ipc' = AfterPm
          /\ UNCHANGED <<cmds, flowErr>>
  /\ UNCHANGED <<isTypeScript, packageManager, ops, batch, answers, shown,
                 mainRes, printed, gateVars>>

\* execInProject(pm.install(name, args)): calling a function the command
\* set does not have throws a TypeError before any command is run
ExecInstall(name, args, next) ==
  IF pm.install = NoFunction
  THEN FlowRejects(TypeError) /\ UNCHANGED cmds
  ELSE ExecSync(InstallCommand(pm, name, args), next)

ExecInstallCli ==
  /\ ipc = "installCli"
  /\ ExecInstall("@aws-amplify/cli", "-g", "installLocal")
  /\ UNCHANGED <<isTypeScript, packageManager, ops, batch, answers, shown,
                 pm, mainRes, printed, gateVars>>

ExecInstallLocal ==
  /\ ipc = "installLocal"
  /\ ExecInstall("aws-amplify", "", "configure")
  /\ UNCHANGED <<isTypeScript, packageManager, ops, batch, answers, shown,
                 pm, mainRes, printed, gateVars>>

ExecConfigure ==
  /\ ipc = "configure"
  /\ ExecSync(<<"npx", "amplify", "configure">>, "init")
  /\ UNCHANGED <<isTypeScript, packageManager, ops, batch, answers, shown,
                 pm, mainRes, printed, gateVars>>

ExecInit ==
  /\ ipc = "init"
  /\ ExecSync(<<"npx", "amplify", "init">>, "prompt2")
  /\ UNCHANGED <<isTypeScript, packageManager, ops, batch, answers, shown,
                 pm, mainRes, printed, gateVars>>

\* the second inquirer.prompt is called
PromptValidate ==
  /\ ipc = "prompt2"
  /\ CallPrompt("validate", "q_validate")
  /\ UNCHANGED <<isTypeScript, packageManager, ops, batch, answers, pm, cmds,
                 mainRes, printed, gateVars>>

AnswerValidate ==
  /\ ipc = "q_validate"
  /\ \E v \in BOOLEAN :
       /\ answers' = answers @@ ("validate" :> v)
       /\ ipc' = IF v THEN "validate" ELSE "ready"
  /\ UNCHANGED <<isTypeScript, packageManager, ops, batch, shown, pm, cmds,
                 flowErr, mainRes, printed, gateVars>>

ExecValidate ==
  /\ ipc = "validate"
  /\ ExecSync(RunCommand(pm, "validate"), "ready")
  /\ UNCHANGED <<isTypeScript, packageManager, ops, batch, answers, shown,
                 pm, mainRes, printed, gateVars>>

\* the completion message is logged, askSetupQuestions resolves and so
\* does main
PrintReady ==
  /\ ipc = "ready"
  /\ printed' = TRUE
  /\ mainRes' = [state |-> "resolved", error |-> NoError]
  /\ ipc' = "done"
  /\ UNCHANGED <<isTypeScript, packageManager, ops, batch, answers, shown,
                 pm, cmds, flowErr, gateVars>>

Swallows_all(error) == TRUE

\* the catch handler of main: does it swallow the error
Swallows(error) == error.isTtyError

\* .catch((error) => { if (error.isTtyError) {} else throw error })
CatchFlowError ==
  /\ ipc = "flowRejected"
  /\ mainRes' = IF Swallows(flowErr)
                THEN [state |-> "resolved", error |-> NoError]
                ELSE [state |-> "rejected", error |-> flowErr]
  /\ ipc' = "done"
  /\ UNCHANGED <<isTypeScript, packageManager, ops, batch, answers, shown,
                 pm, cmds, flowErr, printed, gateVars>>

\* ---------------------------------------------------------- specifications
\* the initializer is not running
ScaffoldFrozen ==
  /\ isTypeScript = TRUE
  /\ packageManager = "npm"
  /\ ops = NoOps
  /\ batch = "none"
  /\ ipc = "off"
  /\ answers = NoAnswers
  /\ shown = <<>>
  /\ pm = NoCommandSet
  /\ cmds = <<>>
  /\ flowErr = NoError
  /\ mainRes = [state |-> "off", error |-> NoError]
  /\ printed = FALSE

GateInit ==
  /\ ScaffoldFrozen
  /\ env \in [FLY_REGION : Regions, PRIMARY_REGION : Regions]
  /\ req = NoRequest
  /\ files = NoFiles
  /\ gpc = "idle"
  /\ res = NoResponse
  /\ sent = <<>>

\* the server is not running
GateFrozen ==
  /\ env = [FLY_REGION |-> UNDEFINED, PRIMARY_REGION |-> UNDEFINED]
  /\ req = NoRequest
  /\ files = NoFiles
  /\ gpc = "idle"
  /\ res = NoResponse
  /\ sent = <<>>

ScaffoldInit ==
  /\ GateFrozen
  /\ isTypeScript \in BOOLEAN
  /\ packageManager \in PackageManagers
  /\ ops = NoOps
  /\ batch = "none"
  /\ ipc = "read"
  /\ answers = NoAnswers
  /\ shown = <<>>
  /\ pm = NoCommandSet
  /\ cmds = <<>>
  /\ flowErr = NoError
  /\ mainRes = [state |-> "running", error |-> NoError]
  /\ printed = FALSE

GateNext ==
  \/ Receive
  \/ SlashRedirect
  \/ getReplaceResponse
  \/ Compression
  \/ StaticBuild
  \/ StaticPublic
  \/ Morgan
  \/ AppHandler
  \/ Close

ScaffoldNext ==
  \/ ReadTemplates
  \/ CompleteOp
  \/ MainResume
  \/ AnswerAmplify
  \/ AnswerCli
  \/ PromptRejects
  \/ SelectPm
  \/ ExecInstallCli
  \/ ExecInstallLocal
  \/ ExecConfigure
  \/ ExecInit
  \/ PromptValidate
  \/ AnswerValidate
  \/ ExecValidate
  \/ PrintReady
  \/ CatchFlowError

\* the server
GateSpec == GateInit /\ [][GateNext]_vars

\* the initializer
ScaffoldSpec == ScaffoldInit /\ [][ScaffoldNext]_vars

\* ------------------------------------------------------------ properties
Range(s) == {s[i] : i \in DOMAIN s}

IsPrefix(s, t) == Len(s) <= Len(t) /\ SubSeq(t, 1, Len(s)) = s

RECURSIVE StripTrailingSlashes(_)
StripTrailingSlashes(s) ==
  IF Len(s) > 0 /\ s[Len(s)] = "/"
  THEN StripTrailingSlashes(SubSeq(s, 1, Len(s) - 1))
  ELSE s

RECURSIVE SingleSlashes(_)
SingleSlashes(s) ==
  IF Len(s) = 0 THEN s
  ELSE LET rest == SingleSlashes(Tail(s))
       IN  IF s[1] = "/" /\ Len(rest) > 0 /\ rest[1] = "/" THEN rest
           ELSE <<s[1]>> \o rest

\* the canonical form of a path: no trailing separator, no repeated
\* separator; the root stays the root
Canonical(p) ==
  LET c == StripTrailingSlashes(SingleSlashes(p))
  IN  IF c = <<>> THEN <<"/">> ELSE c

HasTrailingSlash(p) == Len(p) > 1 /\ p[Len(p)] = "/"

RegionSet(r) == r # UNDEFINED /\ r # ""

SecondaryRegion ==
  RegionSet(env.FLY_REGION) /\ RegionSet(env.PRIMARY_REGION)
    /\ env.FLY_REGION # env.PRIMARY_REGION

WriteMethod == req.method \notin {"GET", "HEAD", "OPTIONS"}

\* C1: a request whose path is longer than one character and ends in
\* separators is answered by a 301 redirect to the path without any trailing
\* separator and without repeated separators, followed by the query string
\* unchanged, and nothing else answers it.
C1_RedirectStripsAllTrailing ==
  (gpc = "done" /\ HasTrailingSlash(req.path)) =>
    /\ sent = <<"redirect">>
    /\ res.status = 301
    /\ res.location = Canonical(req.path) \o req.search

\* C2 as stated: a request with a method other than GET, HEAD, OPTIONS, on
\* any path, in a secondary region, is answered by 409 with
\* fly-replay: region=<primary region>, and neither redirected nor served
\* from the static files.
C2_ReplayOnAnyPath ==
  (gpc = "done" /\ WriteMethod /\ SecondaryRegion) =>
    /\ res.status = 409
    /\ res.flyReplay = <<"region=", env.PRIMARY_REGION>>
    /\ sent = <<"replay">>

\* C2 amended: the same for the requests the trailing-slash redirect lets
\* through (the path is "/" or does not end in a separator), current and
\* primary region being non-empty and different.
C2_ReplayUnlessRedirected ==
  (gpc = "done" /\ WriteMethod /\ SecondaryRegion
     /\ ~HasTrailingSlash(req.path)) =>
    /\ res.status = 409
    /\ res.flyReplay = <<"region=", env.PRIMARY_REGION>>
    /\ sent = <<"replay">>
    /\ res.location = <<>>

C2_Witness ==
  /\ gpc = "done"
  /\ req.method = "POST"
  /\ req.path = <<"/", "posts">>
  /\ env = [FLY_REGION |-> "lhr", PRIMARY_REGION |-> "iad"]
  /\ res.status = 409

\* C3: when the current region equals the primary region or one of them is
\* unset, no step produces a 409 or a fly-replay header, whatever the
\* method, and the replay step hands the request unanswered to the next
\* layer of the chain.
C3_NoReplayInPrimary ==
  [][ (~SecondaryRegion) =>
        /\ res'.status # 409
        /\ res'.flyReplay = <<>>
        /\ "replay" \notin Range(sent')
        /\ (gpc = "replay" =>
              gpc' = "compression" /\ sent' = sent /\ res' = res) ]_vars

C3_Witness ==
  /\ gpc = "compression"
  /\ req.method = "POST"
  /\ env = [FLY_REGION |-> "iad", PRIMARY_REGION |-> "iad"]

\* C4: a request that satisfies the replay condition and is not redirected
\* never reaches the static layers nor the application handler, also when
\* its path names a static file; and a request is ended by exactly one of
\* redirect, replay, static response, application.
C4_ReplayBeforeStatic ==
  /\ Len(sent) <= 1
  /\ Range(sent) \subseteq {"redirect", "replay", "static", "app"}
  /\ (gpc = "done" <=> Len(sent) = 1)
  /\ (WriteMethod /\ SecondaryRegion /\ ~HasTrailingSlash(req.path)) =>
       /\ gpc \notin {"compression", "staticBuild", "staticPublic",
                      "morgan", "app"}
       /\ "static" \notin Range(sent)
       /\ "app" \notin Range(sent)

C4_Witness ==
  /\ gpc = "done"
  /\ WriteMethod /\ SecondaryRegion
  /\ req.path = <<"/", "build", "/", "posts">>
  /\ files.build /\ files.public
  /\ sent = <<"replay">>

Started == ops # NoOps

\* C5: a failed file operation of the batch aborts nothing: no operation is
\* cancelled or rolled back, the failure does not settle main, main goes on
\* to the first prompt, and main is never rejected with a failure of the
\* batch.
C5_BatchIsBestEffort ==
  [][ (ops'.failed > 0) =>
        /\ ops'.pending + ops'.ok + ops'.failed = NumOps(isTypeScript)
        /\ ops'.ok >= ops.ok
        /\ ops'.failed >= ops.failed
        /\ (ops'.failed > ops.failed => mainRes' = mainRes /\ ipc' = ipc)
        /\ (ipc = "awaitBatch" /\ ipc' # ipc =>
              /\ mainRes' = mainRes
              /\ \/ ipc' = "q_amplify" /\ shown' = <<"amplify">>
                 \/ ipc' = "flowRejected" /\ flowErr'.isTtyError)
        /\ (mainRes'.state = "rejected" =>
              mainRes'.error.kind \in {"cancel", "exec", "type"}) ]_vars

C5_Witness ==
  /\ ops.failed > 0
  /\ ops.ok > 0
  /\ ops.pending = 0
  /\ mainRes.state = "resolved"
  /\ printed

\* C6: the question about the global CLI install is displayed only after a
\* yes to the integration question.
C6_CliAskedOnlyIfAmplify ==
  ("cli" \in Range(shown)) =>
    ("amplify" \in DOMAIN answers /\ answers["amplify"])

\* the role of a command in the flow
Role(c) ==
  CASE c = <<"pnpm", "--version">> -> "version"
    [] c = <<"npx", "amplify", "configure">> -> "configure"
    [] c = <<"npx", "amplify", "init">> -> "init"
    [] OTHER ->
         IF c[Len(c)] = "@aws-amplify/cli" /\ "-g" \in Range(c)
           THEN "installCli"
         ELSE IF c[Len(c)] = "aws-amplify" THEN "installLocal"
         ELSE IF c[Len(c)] = "validate" THEN "validate"
         ELSE "other"

Roles == [i \in DOMAIN cmds |-> Role(cmds[i].command)]

Answer(name) == name \in DOMAIN answers /\ answers[name]

ExpectedRoles ==
  (IF packageManager = "pnpm" THEN <<"version">> ELSE <<>>)
  \o (IF Answer("amplify")
      THEN (IF Answer("cli") THEN <<"installCli">> ELSE <<>>)
           \o <<"installLocal", "configure", "init">>
      ELSE <<>>)
  \o (IF Answer("validate") THEN <<"validate">> ELSE <<>>)

CommandFailed == \E i \in DOMAIN cmds : ~cmds[i].ok

C8_CancelAndTtySwallowed ==
  (ipc = "done" /\ flowErr # NoError) =>
    IF flowErr.kind \in {"cancel", "tty"}
    THEN mainRes.state = "resolved"
    ELSE mainRes.state = "rejected"

\* C8 amended: only the non-interactive-terminal error (isTtyError) is
\* swallowed; every other error of the flow, a cancellation included,
\* rejects main with that error.
C8_OnlyTtySwallowed ==
  (ipc = "done" /\ flowErr # NoError) =>
    IF flowErr.kind = "tty"
    THEN mainRes = [state |-> "resolved", error |-> NoError] /\ ~printed
    ELSE mainRes = [state |-> "rejected", error |-> flowErr]

C8_Witness ==
  /\ ipc = "done"
  /\ flowErr = CancelError
  /\ mainRes = [state |-> "rejected", error |-> CancelError]
  /\ shown = <<"amplify", "cli", "validate">>

\* C9: for every package manager, the flow of a user who enables the
\* integration never fails for a function missing from the command set, and
\* a flow that ends without a failed command and without a prompt error has
\* run the local package install.
C9_InstallRunsForEveryManager ==
  /\ flowErr.kind # "type"
  /\ (Answer("amplify") /\ ipc = "done" /\ flowErr = NoError) =>
       "installLocal" \in Range(Roles)

\* C10: a prompt is displayed and a command run only when no file operation
\* of the batch is still pending.
C10_BatchCompleteBeforeFlow ==
  (shown # <<>> \/ cmds # <<>>) => (Started /\ ops.pending = 0)

====
